---------------------------- MODULE Spec2Model ----------------------------
(***************************************************************************)
(* A model of codependency (src/index.js): optional peer dependencies for  *)
(* Node.js middleware.                                                     *)
(*                                                                         *)
(* JavaScript values are represented as follows.                           *)
(*   - undefined and null are the strings Undefined and Null; no range,    *)
(*     version or name of the model equals either.                         *)
(*   - a string is a TLA+ string; "" is the empty (falsy) string.          *)
(*   - an object used as a hash-map is a function on its own keys.         *)
(*   - a value that may be undefined and is an object otherwise (a section *)
(*     of a package.json, an options argument) is <<>> when undefined and  *)
(*     <<object>> otherwise.                                               *)
(*   - a module name or a path is the sequence of its "/"-separated        *)
(*     segments; the file system's root directory is <<>>.                 *)
(*   - the three-valued fields isInstalled and isValid hold "true",        *)
(*     "false" or Null.                                                    *)
(* Registration names and dependency names range over ordinary strings,    *)
(* not over the names of Object.prototype's members.                       *)
(***************************************************************************)
EXTENDS Naturals, Sequences, FiniteSets, TLC

VARIABLES
    middlewares,   \* index.js:272, the registry: registration name -> gateway
    last,          \* the last API call made on the registry and its outcome
    args,          \* the arguments a function under check was handed
    ret,           \* what it returned or threw (Pending before the call)
    walk           \* findPackage's loop, one iteration at a time

vars == <<middlewares, last, args, ret, walk>>

Undefined == "undefined"
Null == "null"
Pending == [op |-> "pending"]
Idle == [op |-> "idle"]

\* JavaScript's truthiness of a string-or-undefined-or-null value.
Truthy(v) == v /= Undefined /\ v /= Null /\ v /= ""

\* obj[key] of a hash-map of strings: undefined when the key is missing.
Lookup(obj, key) == IF key \in DOMAIN obj THEN obj[key] ELSE Undefined

\* pkg[key] of a parsed package.json, for a key that holds a section.
Section(pkg, key) == IF key \in DOMAIN pkg.sections THEN <<pkg.sections[key]>> ELSE <<>>

(***************************************************************************)
(* semver (index.js:6), the part of it the model's ranges and versions use.*)
(***************************************************************************)
\* A version string parsed to <<major, minor, patch>>; <<>> when malformed.
ParseVersion(v) ==
    CASE v = "1.2.0" -> <<1, 2, 0>>
      [] v = "1.2.5" -> <<1, 2, 5>>
      [] v = "1.3.0" -> <<1, 3, 0>>
      [] v = "2.0.0" -> <<2, 0, 0>>
      [] OTHER -> <<>>

\* A range string parsed to its comparator; kind "invalid" when malformed.
\* The empty range is the range "*".
ParseRange(r) ==
    CASE r = "*" -> [kind |-> "any"]
      [] r = "" -> [kind |-> "any"]
      [] r = "~1.2.0" -> [kind |-> "tilde", base |-> <<1, 2, 0>>]
      [] r = "^1.2.0" -> [kind |-> "caret", base |-> <<1, 2, 0>>]
      [] r = ">=2.0.0" -> [kind |-> "gte", base |-> <<2, 0, 0>>]
      [] OTHER -> [kind |-> "invalid"]

\* a >= b on <<major, minor, patch>>.
VersionGte(a, b) ==
    \/ a[1] > b[1]
    \/ a[1] = b[1] /\ a[2] > b[2]
    \/ a[1] = b[1] /\ a[2] = b[2] /\ a[3] >= b[3]

\* semver.validRange(range): the normalised range, null when malformed.
validRange(range) ==
    IF range = Undefined \/ range = Null THEN Null
    ELSE LET p == ParseRange(range) IN
         CASE p.kind = "invalid" -> Null
           [] p.kind = "any" -> "*"
           [] OTHER -> range

\* semver.satisfies(version, range). A malformed range or version satisfies
\* nothing (semver releases that throw on a malformed version throw inside
\* realResolve's try block, which records the same isValid = false).
satisfies(version, range) ==
    LET v == ParseVersion(version)
        p == ParseRange(range)
    IN  IF v = <<>> \/ p.kind = "invalid" THEN FALSE
        ELSE CASE p.kind = "any" -> TRUE
               [] p.kind = "tilde" ->
                    v[1] = p.base[1] /\ v[2] = p.base[2] /\ v[3] >= p.base[3]
               [] p.kind = "caret" -> v[1] = p.base[1] /\ VersionGte(v, p.base)
               [] p.kind = "gte" -> VersionGte(v, p.base)

(***************************************************************************)
(* The resolver and the gateway (index.js:9-191).                          *)
(*                                                                         *)
(* baseMod.require is the module loader. A call of the gateway asks it for *)
(* at most two things, the dependency's package.json and the dependency    *)
(* itself, so a loader is the pair of its answers:                         *)
(*   loader.pkg: [kind |-> "ok", version |-> v]  the parsed package.json,  *)
(*                 v = [type |-> "undefined" | "number"] or                *)
(*                     [type |-> "string", str |-> s]                      *)
(*               [kind |-> "null"]  a package.json that parses to null     *)
(*               [kind |-> "throw", code |-> c]                            *)
(*   loader.mod: [kind |-> "ok"]  the dependency's exports                 *)
(*               [kind |-> "throw", code |-> c, mentionsUndefined |-> b]   *)
(*                 b: the error's message contains the text "undefined"    *)
(* The field loads of a result lists the requests made to the loader.      *)
(***************************************************************************)
isRealDep_InvertedGuard(dependencies, name) ==
    IF dependencies = <<>> THEN TRUE
    ELSE IF ~Truthy(Lookup(dependencies[1], name)) THEN FALSE
    ELSE TRUE

isRealDep(dependencies, name) ==
    IF dependencies = <<>> THEN FALSE
    ELSE IF ~Truthy(Lookup(dependencies[1], name)) THEN FALSE
    ELSE TRUE

isRealDepInPackage(pkg, name) ==
    \/ isRealDep(Section(pkg, "dependencies"), name)
    \/ isRealDep(Section(pkg, "devDependencies"), name)
    \/ isRealDep(Section(pkg, "optionalDependencies"), name)

\* name.slice(0, name.indexOf('/')) when the name holds a "/".
PackageOf(name) == name[1]

\* The catch block's isInstalled (line 81), from the caught error's code.
InstalledWhenCaught_Never(code) == "false"

InstalledWhenCaught(code) == IF code /= "MODULE_NOT_FOUND" THEN "true" ELSE "false"

\* realResolve's try/catch once baseMod.require(pkgPath) has answered.
ResolveLoaded(resolved, range, answer) ==
    IF answer.kind = "throw"
    THEN [resolved EXCEPT
            !.isInstalled = InstalledWhenCaught(answer.code),
            !.isValid = "false"]
    ELSE IF answer.kind = "null"
    \* pkg.version of null throws a TypeError, which has no code
    THEN [resolved EXCEPT
            !.isInstalled = InstalledWhenCaught(Undefined),
            !.isValid = "false"]
    ELSE IF answer.version.type = "string"
    THEN [resolved EXCEPT
            !.isInstalled = "true",
            !.installedVersion = answer.version.str,
            !.isValid = IF Truthy(range)
                        THEN (IF satisfies(answer.version.str, range) THEN "true" ELSE "false")
                        ELSE "true"]
    ELSE [resolved EXCEPT !.isInstalled = "true"]

realResolve(deps, baseMod, basePkg, name) ==
    LET pkgName == PackageOf(name)
        range == Lookup(deps, pkgName)
        resolved == [supportedRange |-> IF Truthy(range) THEN range ELSE Null,
                     installedVersion |-> Null,
                     isValid |-> Null,
                     isInstalled |-> Null,
                     pkgPath |-> <<pkgName, "package.json">>,
                     loads |-> <<>>]
    IN  IF ~isRealDepInPackage(basePkg, pkgName)
        THEN [resolved EXCEPT !.isInstalled = "false", !.isValid = "false"]
        ELSE ResolveLoaded([resolved EXCEPT !.loads = <<resolved.pkgPath>>],
                           range, baseMod.pkg)

Return(value, loads) == [kind |-> "return", value |-> value, loads |-> loads]
Throw(error, loads) == [kind |-> "throw", error |-> error, loads |-> loads]

CheckVersion_NoRangeCheck(resolved, range, options, loads) ==
    IF range = "*" THEN Return("exports", loads)
    ELSE IF ~Truthy(resolved.installedVersion)
    THEN IF options.dontThrow THEN Return(Undefined, loads)
         ELSE Throw("MissingVersionMetadata", loads)
    ELSE Return("exports", loads)

\* realRequire from line 152 on: the dependency is installed and loaded.
\* (Lines 168-177 cannot run: installedVersion is null or a string.)
CheckVersion(resolved, range, options, loads) ==
    IF range = "*" THEN Return("exports", loads)
    ELSE IF ~Truthy(resolved.installedVersion)
    THEN IF options.dontThrow THEN Return(Undefined, loads)
         ELSE Throw("MissingVersionMetadata", loads)
    ELSE IF resolved.isValid /= "true"
    THEN IF options.dontThrow THEN Return(Undefined, loads)
         ELSE Throw("VersionRangeUnsatisfied", loads)
    ELSE Return("exports", loads)

\* options = options || {}
OptionsOf(options) ==
    IF options = <<>> THEN [optional |-> FALSE, dontThrow |-> FALSE] ELSE options[1]

realRequire(deps, baseMod, basePkg, middlewareName, name, options0) ==
    LET options == OptionsOf(options0)
        resolved == realResolve(deps, baseMod, basePkg, name)
        range == IF resolved.supportedRange /= Null THEN resolved.supportedRange ELSE "*"
        tried == resolved.isInstalled = "true"
        loads == IF tried THEN Append(resolved.loads, name) ELSE resolved.loads
        answer == baseMod.mod
        \* error.message.indexOf(mod) > -1, with mod still undefined
        missing == /\ tried
                   /\ answer.kind = "throw"
                   /\ answer.code = "MODULE_NOT_FOUND"
                   /\ answer.mentionsUndefined
        isInstalled == tried /\ ~missing
    IN  IF tried /\ answer.kind = "throw" /\ ~missing
        THEN IF options.dontThrow THEN Return(Undefined, loads)
             ELSE Throw("DependencyLoadFailed", loads)
        ELSE IF ~isInstalled
        THEN IF options.optional THEN Return(Undefined, loads)
             ELSE Throw("DependencyNotInstalled", loads)
        ELSE CheckVersion(resolved, range, options, loads)

(***************************************************************************)
(* The Manifest Locator (index.js:204-232).                                *)
(*                                                                         *)
(* A disk is a function from the directories that hold a package.json to   *)
(* the parsed file: [name, main, sections], where main is the exports      *)
(* object that require(directory) yields. A module is [filename, exports,  *)
(* parent], parent being <<>> or <<module>>. Every package.json of a disk  *)
(* parses and every such directory has a main module that loads.           *)
(***************************************************************************)
\* path.dirname of an absolute path; the root is its own parent.
dirname(path) == IF path = <<>> THEN <<>> ELSE SubSeq(path, 1, Len(path) - 1)

pathJoin(dir, file) == Append(dir, file)

\* fs.existsSync(pkgPath), for a path that ends in package.json
exists(disk, pkgPath) == dirname(pkgPath) \in DOMAIN disk

\* One iteration of the do-while loop (lines 209-218) from lastDir: the loop
\* throws, goes on ("loop") or leaves with pkgPath naming a file ("found").
Iterate_StopsBelowRoot(disk, lastDir) ==
    LET dir == dirname(lastDir) IN
    IF dir = lastDir \/ dir = <<>>
    THEN [pc |-> "thrown", error |-> "ManifestNotFound", lastDir |-> lastDir, pkgPath |-> <<>>]
    ELSE [pc |-> IF exists(disk, pathJoin(dir, "package.json")) THEN "found" ELSE "loop",
          error |-> Undefined,
          lastDir |-> dir,
          pkgPath |-> pathJoin(dir, "package.json")]

Iterate(disk, lastDir) ==
    LET dir == dirname(lastDir) IN
    IF dir = lastDir
    THEN [pc |-> "thrown", error |-> "ManifestNotFound", lastDir |-> lastDir, pkgPath |-> <<>>]
    ELSE [pc |-> IF exists(disk, pathJoin(dir, "package.json")) THEN "found" ELSE "loop",
          error |-> Undefined,
          lastDir |-> dir,
          pkgPath |-> pathJoin(dir, "package.json")]

\* Lines 220-231, once the loop has left with pkgPath.
Accept(disk, baseModule, strictCheck, pkgPath) ==
    IF strictCheck /\ disk[dirname(pkgPath)].main /= baseModule.exports
    THEN [kind |-> "throw", error |-> "ManifestIdentityMismatch"]
    ELSE [kind |-> "return", pkg |-> disk[dirname(pkgPath)]]

\* The whole loop, from lastDir.
RECURSIVE Scan(_, _)
Scan(disk, lastDir) ==
    LET it == Iterate(disk, lastDir) IN
    IF it.pc = "loop" THEN Scan(disk, it.lastDir) ELSE it

findPackage(disk, baseModule, strictCheck) ==
    LET found == Scan(disk, baseModule.filename) IN
    IF found.pc = "thrown"
    THEN [kind |-> "throw", error |-> found.error]
    ELSE Accept(disk, baseModule, strictCheck, found.pkgPath)

(***************************************************************************)
(* The Dependency Extractor (index.js:243-269).                            *)
(***************************************************************************)
\* Object.keys(deps): the keys in the order the object holds them, here the
\* order of KeyOrder.
KeyOrder == <<"mysql", "redis">>

Keys(deps) == SelectSeq(KeyOrder, LAMBDA n : n \in DOMAIN deps)

\* fullDeps[name] = range
Assign_KeepFirst(fullDeps, name, range) ==
    IF name \in DOMAIN fullDeps THEN fullDeps
    ELSE [n \in DOMAIN fullDeps \cup {name} |-> IF n = name THEN range ELSE fullDeps[n]]

Assign(fullDeps, name, range) ==
    [n \in DOMAIN fullDeps \cup {name} |-> IF n = name THEN range ELSE fullDeps[n]]

\* The inner loop (lines 254-265) over names[j..] of one section.
RECURSIVE ExtractNames(_, _, _, _)
ExtractNames(deps, names, j, fullDeps) ==
    IF j > Len(names) THEN [kind |-> "return", deps |-> fullDeps]
    ELSE LET name == names[j]
             range == deps[name]
         IN  IF validRange(range) = Null
             THEN [kind |-> "throw", error |-> "InvalidRangeExpression",
                   name |-> name, range |-> range]
             ELSE ExtractNames(deps, names, j + 1, Assign(fullDeps, name, range))

\* The outer loop (lines 246-266) over index[i..].
RECURSIVE ExtractSections(_, _, _, _)
ExtractSections(pkg, index, i, fullDeps) ==
    IF i > Len(index) THEN [kind |-> "return", deps |-> fullDeps]
    ELSE LET deps == Section(pkg, index[i]) IN
         IF deps = <<>> THEN ExtractSections(pkg, index, i + 1, fullDeps)
         ELSE LET inner == ExtractNames(deps[1], Keys(deps[1]), 1, fullDeps) IN
              IF inner.kind = "throw" THEN inner
              ELSE ExtractSections(pkg, index, i + 1, inner.deps)

extractDeps(pkg, index) == ExtractSections(pkg, index, 1, <<>>)

(***************************************************************************)
(* The Registry (index.js:272-349).                                        *)
(*                                                                         *)
(* A gateway (the closure requirePeer) is [id, middlewareName, deps,       *)
(* baseModule, basePkg]: id tells one closure from another, the rest is    *)
(* what the closure is bound to. register's result carries, besides what   *)
(* the call returns or throws, the registry it leaves, the registration    *)
(* name it was called for (options.name, else the name of the component's  *)
(* manifest once located) and the steps it took:                           *)
(*   "locate component"  findPackage(baseModule, strictCheck), line 295    *)
(*   "lookup"            middlewares.hasOwnProperty(name), line 305        *)
(*   "extractDeps"       extractDeps(pkg, index), line 313                 *)
(*   "locate consumer"   findPackage(baseModule.parent, false), line 321   *)
(***************************************************************************)
DefaultIndex == <<"optionalPeerDependencies">>

\* options = options || {}
RegisterOptionsOf(options) ==
    IF options = <<>> THEN [name |-> Undefined, index |-> <<>>, strictCheck |-> <<>>]
    ELSE options[1]

\* middlewares.hasOwnProperty(middlewareName)
hasOwnProperty_Never(registry, middlewareName) == FALSE

hasOwnProperty(registry, middlewareName) == middlewareName \in DOMAIN registry

Failed(error, name, registry, steps) ==
    [kind |-> "throw", error |-> error, gateway |-> <<>>, name |-> name,
     middlewares |-> registry, steps |-> steps]

Returned(gateway, name, registry, steps) ==
    [kind |-> "return", error |-> Undefined, gateway |-> <<gateway>>, name |-> name,
     middlewares |-> registry, steps |-> steps]

\* The closure register creates, told from every closure created before it.
NewGateway(registry, middlewareName, deps, baseModule, basePkg) ==
    [id |-> Cardinality({registry[n].id : n \in DOMAIN registry}) + 1,
     middlewareName |-> middlewareName, deps |-> deps,
     baseModule |-> baseModule, basePkg |-> basePkg]

registerNew_StoresBeforeConsumer(registry, disk, baseModule, options, pkg, middlewareName) ==
    LET index == IF options.index = <<>> THEN DefaultIndex ELSE options.index[1]
        deps == extractDeps(pkg, index)
        steps == <<"locate component", "lookup", "extractDeps">>
    IN  IF deps.kind = "throw"
        THEN Failed(deps.error, middlewareName, registry, steps)
        ELSE LET early == NewGateway(registry, middlewareName, deps.deps, baseModule, pkg)
                 stored == Assign(registry, middlewareName, early)
             IN  IF baseModule.parent = <<>>
                 THEN Failed("TypeError", middlewareName, stored, steps)
                 ELSE LET basePkg == findPackage(disk, baseModule.parent[1], FALSE) IN
                      IF basePkg.kind = "throw"
                      THEN Failed(basePkg.error, middlewareName, stored,
                                  Append(steps, "locate consumer"))
                      ELSE LET requirePeer ==
                                   NewGateway(registry, middlewareName, deps.deps,
                                              baseModule.parent[1], basePkg.pkg)
                           IN  Returned(requirePeer, middlewareName,
                                        Assign(registry, middlewareName, requirePeer),
                                        Append(steps, "locate consumer"))

\* register from line 309 on: the name is not in the registry.
registerNew(registry, disk, baseModule, options, pkg, middlewareName) ==
    LET index == IF options.index = <<>> THEN DefaultIndex ELSE options.index[1]
        deps == extractDeps(pkg, index)
        steps == <<"locate component", "lookup", "extractDeps">>
    IN  IF deps.kind = "throw"
        THEN Failed(deps.error, middlewareName, registry, steps)
        ELSE IF baseModule.parent = <<>>
        \* findPackage reads the filename of a parent that is not there
        THEN Failed("TypeError", middlewareName, registry, steps)
        ELSE LET basePkg == findPackage(disk, baseModule.parent[1], FALSE) IN
             IF basePkg.kind = "throw"
             THEN Failed(basePkg.error, middlewareName, registry,
                         Append(steps, "locate consumer"))
             ELSE LET requirePeer ==
                          NewGateway(registry, middlewareName, deps.deps,
                                     baseModule.parent[1], basePkg.pkg)
                  IN  Returned(requirePeer, middlewareName,
                               Assign(registry, middlewareName, requirePeer),
                               Append(steps, "locate consumer"))

register_ExtractsBeforeLookup(registry, disk, baseModule, options0) ==
    LET options == RegisterOptionsOf(options0)
        pkg == findPackage(disk, baseModule, options.strictCheck /= <<FALSE>>)
    IN  IF pkg.kind = "throw"
        THEN Failed(pkg.error, options.name, registry, <<"locate component">>)
        ELSE LET middlewareName == IF Truthy(options.name) THEN options.name ELSE pkg.pkg.name
                 index == IF options.index = <<>> THEN DefaultIndex ELSE options.index[1]
                 deps == extractDeps(pkg.pkg, index)
             IN  IF ~Truthy(middlewareName)
                 THEN Failed("MissingRegistrationName", Undefined, registry,
                             <<"locate component">>)
                 ELSE IF deps.kind = "throw"
                 THEN Failed(deps.error, middlewareName, registry,
                             <<"locate component", "extractDeps">>)
                 ELSE IF hasOwnProperty(registry, middlewareName)
                 THEN Returned(registry[middlewareName], middlewareName, registry,
                               <<"locate component", "extractDeps", "lookup">>)
                 ELSE registerNew(registry, disk, baseModule, options, pkg.pkg, middlewareName)

\* exports.register(baseModule, options)
register(registry, disk, baseModule, options0) ==
    LET options == RegisterOptionsOf(options0)
        pkg == findPackage(disk, baseModule, options.strictCheck /= <<FALSE>>)
    IN  IF pkg.kind = "throw"
        THEN Failed(pkg.error, options.name, registry, <<"locate component">>)
        ELSE LET middlewareName == IF Truthy(options.name) THEN options.name ELSE pkg.pkg.name
             IN  IF ~Truthy(middlewareName)
                 THEN Failed("MissingRegistrationName", Undefined, registry,
                             <<"locate component">>)
                 ELSE IF hasOwnProperty(registry, middlewareName)
                 THEN Returned(registry[middlewareName], middlewareName, registry,
                               <<"locate component", "lookup">>)
                 ELSE registerNew(registry, disk, baseModule, options, pkg.pkg, middlewareName)

\* exports.get(middlewareName)
get(registry, middlewareName) ==
    IF middlewareName \in DOMAIN registry THEN <<registry[middlewareName]>> ELSE <<>>

(***************************************************************************)
(* SpecGateway: realResolve and realRequire on every combination of a      *)
(* Declared Dependency Map, a consumer manifest, a loader, a dependency    *)
(* name and call options.                                                  *)
(***************************************************************************)
\* The ranges a Declared Dependency Map can hold: extractDeps let them pass.
DeclaredRanges == {"~1.2.0", ">=2.0.0", "*", ""}

GatewayDeps == {<<>>} \cup {("redis" :> r) : r \in DeclaredRanges}

\* What a section of the consumer's package.json says of redis.
ConsumerSections == {<<>>, <<("mysql" :> "^1.2.0")>>, <<("redis" :> "^1.2.0")>>, <<("redis" :> "")>>}

MakePkg(name, keys, choice) ==
    [name |-> name,
     sections |-> [k \in {x \in keys : choice[x] /= <<>>} |-> choice[k][1]]]

ConsumerKeys == {"dependencies", "devDependencies", "optionalDependencies"}

ConsumerPkgs == {MakePkg("app", ConsumerKeys, c) : c \in [ConsumerKeys -> ConsumerSections]}

VersionFields ==
    {[type |-> "undefined"], [type |-> "number"]}
        \cup {[type |-> "string", str |-> v] : v \in {"1.2.5", "1.3.0", "2.0.0", "latest", ""}}

PkgAnswers ==
    {[kind |-> "ok", version |-> v] : v \in VersionFields}
        \cup {[kind |-> "null"]}
        \cup {[kind |-> "throw", code |-> c] : c \in {"MODULE_NOT_FOUND", "EACCES"}}

ModAnswers ==
    {[kind |-> "ok"]}
        \cup {[kind |-> "throw", code |-> "MODULE_NOT_FOUND", mentionsUndefined |-> b] : b \in BOOLEAN}
        \cup {[kind |-> "throw", code |-> Undefined, mentionsUndefined |-> b] : b \in BOOLEAN}

Loaders == [pkg : PkgAnswers, mod : ModAnswers]

DependencyNames == {<<"redis">>, <<"redis", "lib", "parser">>}

CallOptions == {<<>>} \cup {<<o>> : o \in [optional : BOOLEAN, dontThrow : BOOLEAN]}

GatewayArgs ==
    [deps : GatewayDeps, baseMod : Loaders, basePkg : ConsumerPkgs,
     name : DependencyNames, options : CallOptions]

InitGateway ==
    /\ args \in GatewayArgs
    /\ ret = Pending
    /\ middlewares = <<>>
    /\ last = Idle
    /\ walk = Idle

\* requirePeer.resolve(name)
CallResolve ==
    /\ ret = Pending
    /\ ret' = [op |-> "resolve",
               resolved |-> realResolve(args.deps, args.baseMod, args.basePkg, args.name)]
    /\ UNCHANGED <<middlewares, last, args, walk>>

\* requirePeer(name, options)
CallRequire ==
    /\ ret = Pending
    /\ ret' = [op |-> "require",
               outcome |-> realRequire(args.deps, args.baseMod, args.basePkg, "mw",
                                       args.name, args.options)]
    /\ UNCHANGED <<middlewares, last, args, walk>>

NextGateway == CallResolve \/ CallRequire

SpecGateway == InitGateway /\ [][NextGateway]_vars

(***************************************************************************)
(* Spec: the library in a process. Components register, look gateways up   *)
(* and call them; the disk and the loader are the environment's and may    *)
(* differ from one call to the next.                                       *)
(***************************************************************************)
AppModule ==
    [filename |-> <<"srv", "app", "main.js">>, exports |-> "app", parent |-> <<>>]
MwModule ==
    [filename |-> <<"srv", "app", "node_modules", "mw", "index.js">>,
     exports |-> "mw", parent |-> <<AppModule>>]
MwLibModule ==
    [filename |-> <<"srv", "app", "node_modules", "mw", "lib", "util.js">>,
     exports |-> "mw/lib/util", parent |-> <<AppModule>>]
ScriptModule ==
    [filename |-> <<"tmp", "run.js">>, exports |-> "run", parent |-> <<>>]
AltModule ==
    [filename |-> <<"opt", "alt", "index.js">>, exports |-> "alt", parent |-> <<ScriptModule>>]

\* The modules that call register: a middleware, a file inside it, a script
\* outside every package, a middleware the script loads, and the application
\* itself, which has no parent.
Components == {MwModule, MwLibModule, ScriptModule, AltModule, AppModule}

AppPkg ==
    [name |-> "app", main |-> "app",
     sections |-> ("dependencies" :> ("redis" :> "^1.2.0"))]
MwPkg ==
    [name |-> "mw", main |-> "mw",
     sections |-> ("optionalPeerDependencies" :> ("redis" :> "~1.2.0")
                   @@ "devDependencies" :> ("redis" :> ">=2.0.0" @@ "mysql" :> "*"))]
MwPkgBadRange ==
    [name |-> "mw", main |-> "mw",
     sections |-> ("optionalPeerDependencies" :> ("redis" :> "~1.2.0")
                   @@ "devDependencies" :> ("redis" :> "latest"))]
MwPkgNoName ==
    [name |-> Undefined, main |-> "mw",
     sections |-> ("optionalPeerDependencies" :> ("redis" :> "~1.2.0"))]
AltPkg ==
    [name |-> "mw", main |-> "alt",
     sections |-> ("optionalPeerDependencies" :> ("mysql" :> "^1.2.0"))]
\* What each directory may hold: <<>> is no package.json.
DiskChoices ==
    [{<<"srv", "app">>} -> {<<>>, <<AppPkg>>}]
        \X [{<<"srv", "app", "node_modules", "mw">>} ->
               {<<>>, <<MwPkg>>, <<MwPkgBadRange>>, <<MwPkgNoName>>}]
        \X [{<<"opt", "alt">>} -> {<<AltPkg>>}]

DiskOf(c) ==
    LET all == c[1] @@ c[2] @@ c[3] IN
    [d \in {x \in DOMAIN all : all[x] /= <<>>} |-> all[d][1]]

Disks == {DiskOf(c) : c \in DiskChoices}

RegisterOptions ==
    {<<>>} \cup
    {<<o>> : o \in [name : {Undefined, "mw", "cache"},
                    index : {<<>>, <<<<"optionalPeerDependencies", "devDependencies">>>>},
                    strictCheck : {<<>>, <<FALSE>>}]}

\* The loaders of the environment: redis in or out of the range ~1.2.0, or
\* missing, its main module loading or failing.
EnvLoaders ==
    [pkg : {[kind |-> "ok", version |-> [type |-> "string", str |-> "1.2.5"]],
            [kind |-> "ok", version |-> [type |-> "string", str |-> "2.0.0"]],
            [kind |-> "throw", code |-> "MODULE_NOT_FOUND"]},
     mod : {[kind |-> "ok"],
            [kind |-> "throw", code |-> Undefined, mentionsUndefined |-> FALSE]}]

\* The registry holds at most MaxGateways gateways.
MaxGateways == 2

Init ==
    /\ middlewares = <<>>
    /\ last = Idle
    /\ args = Idle
    /\ ret = Idle
    /\ walk = Idle

Register ==
    \E disk \in Disks, baseModule \in Components, options \in RegisterOptions :
        LET r == register(middlewares, disk, baseModule, options) IN
        /\ Cardinality(DOMAIN r.middlewares) <= MaxGateways
        /\ middlewares' = r.middlewares
        /\ last' = [op |-> "register", name |-> r.name,
                    present |-> r.name \in DOMAIN middlewares,
                    index |-> RegisterOptionsOf(options).index,
                    kind |-> r.kind, error |-> r.error, gateway |-> r.gateway,
                    steps |-> r.steps]
        /\ UNCHANGED <<args, ret, walk>>

Get ==
    \E middlewareName \in {"mw", "cache", "app"} :
        /\ last' = [op |-> "get", name |-> middlewareName,
                    gateway |-> get(middlewares, middlewareName)]
        /\ UNCHANGED <<middlewares, args, ret, walk>>

\* A call of a gateway obtained from register or get.
Require ==
    \E n \in DOMAIN middlewares, name \in DependencyNames,
       options \in CallOptions, loader \in EnvLoaders :
        LET requirePeer == middlewares[n]
            r == realRequire(requirePeer.deps, loader, requirePeer.basePkg,
                             requirePeer.middlewareName, name, options)
        IN  /\ last' = [op |-> "require", name |-> n, gateway |-> <<requirePeer>>,
                        kind |-> r.kind,
                        result |-> IF r.kind = "throw" THEN r.error ELSE r.value]
            /\ UNCHANGED <<middlewares, args, ret, walk>>

\* A call of a gateway's resolve.
Resolve ==
    \E n \in DOMAIN middlewares, name \in DependencyNames, loader \in EnvLoaders :
        LET requirePeer == middlewares[n]
            r == realResolve(requirePeer.deps, loader, requirePeer.basePkg, name)
        IN  /\ last' = [op |-> "resolve", name |-> n, gateway |-> <<requirePeer>>,
                        isInstalled |-> r.isInstalled, isValid |-> r.isValid]
            /\ UNCHANGED <<middlewares, args, ret, walk>>

Next == Register \/ Get \/ Require \/ Resolve

Spec == Init /\ [][Next]_vars

(***************************************************************************)
(* SpecExtract: extractDeps on every manifest of two sections and every    *)
(* list of at most MaxIndex section names.                                 *)
(***************************************************************************)
MaxIndex == 2

ManifestKeys == {"optionalPeerDependencies", "devDependencies"}

\* The names an index may hold: the manifest's sections and one it lacks.
IndexKeys == ManifestKeys \cup {"peerDependencies"}

ExtractRanges == {"~1.2.0", ">=2.0.0", "", "latest"}

ExtractSectionChoices ==
    {<<>>} \cup {<<m>> : m \in UNION {[S -> ExtractRanges] : S \in SUBSET {"mysql", "redis"}}}

ExtractPkgs == {MakePkg("mw", ManifestKeys, c) : c \in [ManifestKeys -> ExtractSectionChoices]}

IndexLists == UNION {[1..n -> IndexKeys] : n \in 0..MaxIndex}

InitExtract ==
    /\ args \in [pkg : ExtractPkgs, index : IndexLists]
    /\ ret = Pending
    /\ middlewares = <<>>
    /\ last = Idle
    /\ walk = Idle

CallExtract ==
    /\ ret = Pending
    /\ ret' = [op |-> "extract", outcome |-> extractDeps(args.pkg, args.index)]
    /\ UNCHANGED <<middlewares, last, args, walk>>

NextExtract == CallExtract

SpecExtract == InitExtract /\ [][NextExtract]_vars

(***************************************************************************)
(* SpecLocate: findPackage one loop iteration at a time, from a module at  *)
(* most MaxDepth directories below the root, on every disk that holds      *)
(* package.json files in some of the directories of the deepest path.      *)
(***************************************************************************)
MaxDepth == 3

\* The directory k levels below the root on the path /1/2/.../MaxDepth.
DirAt(k) == [i \in 1..k |-> ToString(i)]

LocateDirs == {DirAt(k) : k \in 0..MaxDepth}

\* main: the package.json's directory loads the requesting module ("self")
\* or another one.
LocateDisks ==
    UNION {[S -> [name : {"pkg"}, main : {"self", "other"}, sections : {<<>>}]] :
              S \in SUBSET LocateDirs}

LocateModules ==
    {[filename |-> pathJoin(d, "index.js"), exports |-> "self", parent |-> <<>>] :
        d \in LocateDirs}

InitLocate ==
    /\ \E disk \in LocateDisks, baseModule \in LocateModules, strictCheck \in BOOLEAN :
          walk = [disk |-> disk, baseModule |-> baseModule, strictCheck |-> strictCheck,
                  pc |-> "loop", lastDir |-> baseModule.filename, pkgPath |-> <<>>,
                  visited |-> <<>>, result |-> Pending]
    /\ args = Idle
    /\ ret = Idle
    /\ middlewares = <<>>
    /\ last = Idle

\* One pass through the loop body and its while test.
WalkIterate ==
    /\ walk.pc = "loop"
    /\ LET it == Iterate(walk.disk, walk.lastDir) IN
       walk' = [walk EXCEPT
                  !.pc = IF it.pc = "thrown" THEN "done" ELSE it.pc,
                  !.lastDir = it.lastDir,
                  !.pkgPath = it.pkgPath,
                  !.visited = IF it.pc = "thrown" THEN @ ELSE Append(@, it.lastDir),
                  !.result = IF it.pc = "thrown"
                             THEN [kind |-> "throw", error |-> it.error] ELSE @]
    /\ UNCHANGED <<middlewares, last, args, ret>>

\* The identity check and the read of the file found.
WalkAccept ==
    /\ walk.pc = "found"
    /\ walk' = [walk EXCEPT
                  !.pc = "done",
                  !.result = Accept(walk.disk, walk.baseModule, walk.strictCheck, walk.pkgPath)]
    /\ UNCHANGED <<middlewares, last, args, ret>>

NextLocate == WalkIterate \/ WalkAccept

\* findPackage is synchronous code: a call that can take a step takes it.
SpecLocate == InitLocate /\ [][NextLocate]_vars /\ WF_vars(NextLocate)

(***************************************************************************)
(* Properties of the resolver and the gateway, checked under SpecGateway.  *)
(***************************************************************************)
\* The call's options, with the defaults of an omitted options argument.
GivenOptions == IF args.options = <<>> THEN [optional |-> FALSE, dontThrow |-> FALSE]
                ELSE args.options[1]

\* The package the requested name belongs to: the text before its first "/".
RequestedPackage == Head(args.name)

\* Some section of the consumer's manifest has an entry for the package.
ListedByConsumer ==
    \E k \in DOMAIN args.basePkg.sections : RequestedPackage \in DOMAIN args.basePkg.sections[k]

\* Some section of the consumer's manifest gives the package a non-empty range.
\* (An entry whose range is the empty string is no declaration to isRealDep.)
DeclaredByConsumer ==
    \E k \in DOMAIN args.basePkg.sections :
        /\ RequestedPackage \in DOMAIN args.basePkg.sections[k]
        /\ args.basePkg.sections[k][RequestedPackage] /= ""

\* C1: a gateway call with dontThrow set never raises: it returns the loaded
\* interface or the empty result.
C1_DontThrowNeverRaises ==
    (ret.op = "require" /\ GivenOptions.dontThrow) => ret.outcome.kind = "return"

\* C4: a dependency listed in no section of the consumer's manifest resolves
\* to isInstalled = false and isValid = false without a request to the loader,
\* whatever the loader holds, and the gateway called with optional set returns
\* the empty result without raising and without loading.
C4_UndeclaredIsNeverLoaded ==
    ~ListedByConsumer =>
        /\ ret.op = "resolve" =>
              /\ ret.resolved.isInstalled = "false"
              /\ ret.resolved.isValid = "false"
              /\ ret.resolved.loads = <<>>
        /\ (ret.op = "require" /\ GivenOptions.optional) =>
              /\ ret.outcome.kind = "return"
              /\ ret.outcome.value = Undefined
              /\ ret.outcome.loads = <<>>

C4_Witness ==
    /\ ~ListedByConsumer
    /\ Len(args.name) > 1
    /\ RequestedPackage \in DOMAIN args.deps
    /\ args.baseMod.pkg.kind = "ok"
    /\ args.baseMod.mod.kind = "ok"
    /\ ret.op = "require"
    /\ GivenOptions.optional
    /\ ~GivenOptions.dontThrow
    /\ ret.outcome.kind = "return"

\* resolve asked the loader for the manifest of a dependency the consumer
\* lists, and the loader failed.
ManifestReadFailed ==
    /\ ret.op = "resolve"
    /\ ListedByConsumer
    /\ ret.resolved.loads = <<ret.resolved.pkgPath>>
    /\ args.baseMod.pkg.kind = "throw"

\* C5 as stated: when the consumer declares the dependency and the loader
\* fails to read the dependency's manifest, a "not found" failure resolves to
\* isInstalled = false and any other failure to isInstalled = unknown (neither
\* true nor false); isValid = false in both cases.
C5_OtherFailureIsUnknown ==
    ManifestReadFailed =>
        /\ args.baseMod.pkg.code = "MODULE_NOT_FOUND" => ret.resolved.isInstalled = "false"
        /\ args.baseMod.pkg.code /= "MODULE_NOT_FOUND" =>
              ret.resolved.isInstalled \notin {"true", "false"}
        /\ ret.resolved.isValid = "false"

\* C5 amended: when the consumer declares the dependency and the loader fails
\* to read the dependency's manifest, a "not found" failure resolves to
\* isInstalled = false and any other failure to isInstalled = true;
\* isValid = false in both cases.
C5_OtherFailureIsInstalled ==
    ManifestReadFailed =>
        /\ args.baseMod.pkg.code = "MODULE_NOT_FOUND" => ret.resolved.isInstalled = "false"
        /\ args.baseMod.pkg.code /= "MODULE_NOT_FOUND" => ret.resolved.isInstalled = "true"
        /\ ret.resolved.isValid = "false"

C5_Witness ==
    /\ ManifestReadFailed
    /\ args.baseMod.pkg.code /= "MODULE_NOT_FOUND"
    /\ Len(args.name) > 1
    /\ ret.resolved.isInstalled = "true"
    /\ ret.resolved.isValid = "false"

\* The component declares the requested package with a range that constrains
\* the version ("*" and the empty range constrain nothing).
DeclaredRange == Lookup(args.deps, RequestedPackage)
ComponentConstrains == DeclaredRange \notin {Undefined, "*", ""}

\* The loader holds the dependency with a well-formed version, and loads it.
InstalledWellFormed ==
    /\ args.baseMod.pkg.kind = "ok"
    /\ args.baseMod.pkg.version.type = "string"
    /\ ParseVersion(args.baseMod.pkg.version.str) /= <<>>
    /\ args.baseMod.mod.kind = "ok"

C10_NotFoundOnLoadIsNotInstalled ==
    (/\ ret.op = "require"
     /\ realResolve(args.deps, args.baseMod, args.basePkg, args.name).isInstalled = "true"
     /\ args.baseMod.mod.kind = "throw"
     /\ args.baseMod.mod.code = "MODULE_NOT_FOUND") =>
        /\ GivenOptions.optional =>
              (ret.outcome.kind = "return" /\ ret.outcome.value = Undefined)
        /\ ~GivenOptions.optional =>
              (ret.outcome.kind = "throw" /\ ret.outcome.error = "DependencyNotInstalled")

(***************************************************************************)
(* Properties of extractDeps, checked under SpecExtract.                   *)
(***************************************************************************)
\* The positions of the index that name a section the manifest holds.
ScannedPositions == {i \in 1..Len(args.index) : args.index[i] \in DOMAIN args.pkg.sections}

SectionAt(i) == args.pkg.sections[args.index[i]]

ScannedNames == UNION {DOMAIN SectionAt(i) : i \in ScannedPositions}

\* The last position of the index whose section declares name n.
LastDeclaring(n) ==
    CHOOSE i \in ScannedPositions :
        /\ n \in DOMAIN SectionAt(i)
        /\ \A j \in ScannedPositions : n \in DOMAIN SectionAt(j) => j <= i

WellFormedRange(r) == r \in {"*", "", "~1.2.0", "^1.2.0", ">=2.0.0"}

\* C7: extractDeps returns a map whose keys are the dependency names of all
\* listed sections the manifest holds, each mapped to the range of the last
\* section in list order that declares it, every value a valid range; sections
\* the manifest lacks are skipped. (It returns iff every range of a scanned
\* section is valid, and otherwise throws naming an invalid entry.)
C7_LastSectionWins ==
    ret.op = "extract" =>
        /\ ret.outcome.kind = "return" <=>
              \A i \in ScannedPositions : \A n \in DOMAIN SectionAt(i) :
                  WellFormedRange(SectionAt(i)[n])
        /\ ret.outcome.kind = "return" =>
              /\ DOMAIN ret.outcome.deps = ScannedNames
              /\ \A n \in ScannedNames :
                    /\ ret.outcome.deps[n] = SectionAt(LastDeclaring(n))[n]
                    /\ WellFormedRange(ret.outcome.deps[n])
        /\ ret.outcome.kind = "throw" =>
              \E i \in ScannedPositions :
                  /\ ret.outcome.name \in DOMAIN SectionAt(i)
                  /\ SectionAt(i)[ret.outcome.name] = ret.outcome.range
                  /\ ~WellFormedRange(ret.outcome.range)

C7_Witness ==
    /\ ret.op = "extract"
    /\ args.index = <<"peerDependencies", "optionalPeerDependencies", "devDependencies">>
           \/ args.index = <<"optionalPeerDependencies", "devDependencies">>
    /\ ManifestKeys \subseteq DOMAIN args.pkg.sections
    /\ "redis" \in DOMAIN args.pkg.sections["optionalPeerDependencies"]
    /\ "redis" \in DOMAIN args.pkg.sections["devDependencies"]
    /\ "mysql" \in DOMAIN args.pkg.sections["optionalPeerDependencies"]
    /\ args.pkg.sections["optionalPeerDependencies"]["redis"] = "~1.2.0"
    /\ args.pkg.sections["devDependencies"]["redis"] = ">=2.0.0"
    /\ ret.outcome.kind = "return"
    /\ ret.outcome.deps["redis"] = ">=2.0.0"

(***************************************************************************)
(* Properties of findPackage, checked under SpecLocate.                    *)
(***************************************************************************)
\* The starting directory and its ancestors, up to the root.
StartDir == SubSeq(walk.baseModule.filename, 1, Len(walk.baseModule.filename) - 1)

Ancestors == {SubSeq(StartDir, 1, k) : k \in 0..Len(StartDir)}

WithManifest == Ancestors \cap DOMAIN walk.disk

Nearest == CHOOSE d \in WithManifest : \A e \in WithManifest : Len(e) <= Len(d)

\* The directories tested so far: the starting directory, then each parent.
VisitsAscend ==
    \A i \in 1..Len(walk.visited) :
        walk.visited[i] = SubSeq(StartDir, 1, Len(StartDir) - (i - 1))

LocateResult ==
    walk.pc = "done" =>
        /\ (walk.result.kind = "throw" /\ walk.result.error = "ManifestNotFound")
              <=> WithManifest = {}
        /\ WithManifest /= {} =>
              IF walk.strictCheck /\ walk.disk[Nearest].main /= walk.baseModule.exports
              THEN walk.result = [kind |-> "throw", error |-> "ManifestIdentityMismatch"]
              ELSE /\ walk.result = [kind |-> "return", pkg |-> walk.disk[Nearest]]
                   /\ walk.visited[Len(walk.visited)] = Nearest

\* C9: findPackage always terminates; from the directory of the module's file
\* it visits strictly ascending ancestors, returns the manifest of the nearest
\* one (the starting directory included) that holds one, and raises
\* ManifestNotFound exactly when none up to the root holds one; with the
\* identity check on, a manifest that does not resolve to the requesting
\* module raises the identity-mismatch error, and with it off the first
\* manifest found is accepted.
C9_LocateTerminatesAtNearest ==
    /\ [](VisitsAscend /\ LocateResult)
    /\ <>(walk.pc = "done")

C9_Witness ==
    /\ walk.pc = "done"
    /\ Len(walk.visited) >= 3
    /\ walk.result.kind = "return"
    /\ ~walk.strictCheck
    /\ walk.disk[Nearest].main /= walk.baseModule.exports
    /\ walk.visited[Len(walk.visited)] = <<>>

(***************************************************************************)
(* Properties of the registry, checked under Spec.                         *)
(***************************************************************************)
\* The last call was a register call that determined its registration name
\* (line 299) and found it in the registry.
RegisteredAgain ==
    /\ last.op = "register"
    /\ last.present
    /\ \E i \in 1..Len(last.steps) : last.steps[i] = "lookup"

C3_RegisteredNameScansNothing ==
    (last.op = "register" /\ last.present) =>
        /\ last.kind = "return"
        /\ \A i \in 1..Len(last.steps) :
              last.steps[i] \notin {"locate component", "locate consumer", "extractDeps"}

\* C3 amended: a register call for a name already in the registry first
\* locates the component's manifest, identity check included, and can fail
\* there with ManifestNotFound or ManifestIdentityMismatch; it then returns the
\* cached gateway without extracting dependencies and without locating the
\* consumer's manifest, so it cannot fail with InvalidRangeExpression.
C3_RegisteredNameSkipsExtraction ==
    (last.op = "register" /\ last.present) =>
        /\ last.steps \in {<<"locate component">>, <<"locate component", "lookup">>}
        /\ last.kind = "return" <=> last.steps = <<"locate component", "lookup">>
        /\ last.kind = "throw" =>
              last.error \in {"ManifestNotFound", "ManifestIdentityMismatch"}

C3_Witness ==
    /\ last.op = "register"
    /\ last.present
    /\ last.kind = "throw"
    /\ last.error = "ManifestIdentityMismatch"

\* C8: a register call that fails raises, returns no gateway and leaves the
\* registry exactly as it was; if its name was not registered, get(name) is
\* still absent.
C8_FailedRegisterChangesNothing ==
    /\ []((last.op = "register" /\ last.kind = "throw") =>
            /\ last.gateway = <<>>
            /\ last.error \in {"ManifestNotFound", "ManifestIdentityMismatch",
                               "MissingRegistrationName", "InvalidRangeExpression",
                               "TypeError"}
            /\ ~last.present => get(middlewares, last.name) = <<>>)
    /\ [][(last'.op = "register" /\ last'.kind = "throw") => middlewares' = middlewares]_vars

C8_Witness ==
    /\ last.op = "register"
    /\ last.kind = "throw"
    /\ last.error = "ManifestNotFound"
    /\ last.steps = <<"locate component", "lookup", "extractDeps", "locate consumer">>
    /\ ~last.present
    /\ middlewares /= <<>>

=============================================================================
